---- MODULE Spec2Model ----
(***************************************************************************)
(* Conversion orchestrator (src/The File/convert.js) and storage sweeps    *)
(* (src/The File/cleanup.js) of the-predator, as a state machine.          *)
(*                                                                         *)
(* One action is one run-to-completion step of the Node event loop: the    *)
(* code from one await continuation (or request/timer callback) up to the  *)
(* next await on an external operation.                                    *)
(***************************************************************************)
EXTENDS Integers, Sequences, FiniteSets, TLC

\* ------------------------------------------------------------------ bounds
NumJobs == 3            \* job ids 1..NumJobs may be passed to addJob
MaxParallelBound == 2   \* maxParallel is configured in 1..MaxParallelBound
MaxBatch == 2           \* longest files array of one POST / request
MaxMtime == 3           \* modification times of stored files are in 1..MaxMtime
MaxPasses == 4          \* secureWipe is called with passes in 0..MaxPasses
MaxPlainLen == 2        \* secureWrite is called with at most MaxPlainLen bytes
NumConversions == 3     \* the browser calls convertFiles at most NumConversions times
MaxTicks == 2           \* the cron schedule fires at most MaxTicks times
MaxBulk == 6            \* longest conversions array of one POST /bulk request

\* --------------------------------------------------------- program constants
DefaultMaxAgeHours == 24
ServerMaxAgeHours == 24
ThresholdGB == 10
IvLen == 16
KeyLen == 32
BatchSize == 5

JobIds == 1..NumJobs
UploadPaths == {"u1", "u2", "u3"}
NoFile == [present |-> FALSE]
File(mtime, type, digest) ==
    [present |-> TRUE, mtime |-> mtime, type |-> type, digest |-> digest]
NoJob == [filePath |-> "", targetFormat |-> ""]
NoResult == [kind |-> "none"]
NoReport == [op |-> "none"]
NoSweep == [op |-> "none"]
NoVault == [written |-> FALSE]
NoAnswer == [fn |-> "none"]
ConversionIds == 1..NumConversions
NoConversion == [status |-> "none", result |-> "none", error |-> "none"]
NoClient ==
    [conversionQueue |-> <<>>, currentConversion |-> 0,
     conversion |-> [c \in ConversionIds |-> NoConversion],
     queued |-> <<>>, fetched |-> <<>>, response |-> "none"]
TempDirs == <<"uploads", "converted", "zips", "secure">>
NoCron == [condition |-> [i \in 1..Len(TempDirs) |-> "ok"], ticks |-> 0]
MonitoredDirs == {"TEMP_DIR", "UPLOAD_DIR", "OUTPUT_DIR"}

\* target formats a request may name: one handled by an engine that writes
\* the output itself, one handled by LibreOffice, one with no strategy
TargetFormats == {"webp", "pdf", "xyz"}

\* files a request may name as filePath: u1 is an uploaded audio file, u2 an
\* uploaded file whose type file-type cannot detect (plain text), u3 a path
\* with no file
InputPaths == {"u1", "u2", "u3"}
RouteInputPaths == {"u1", "u3"}
SweptInputPaths == {"u1", "u2"}

VARIABLES
    maxParallel,      \* ConversionOrchestrator.maxParallel
    conversionQueue,  \* ConversionOrchestrator.conversionQueue (job ids, the
                      \* entry's resolve/reject are promise[id])
    activeWorkers,    \* ConversionOrchestrator.activeWorkers (one entry per running job)
    job,              \* id -> the job object passed to addJob
    pc,               \* id -> position of the job in addJob/runJob/performConversion
    promise,          \* id -> state of the promise returned by addJob
    result,           \* id -> value or error the promise was settled with
    outFile,          \* id -> file at the job's outputPath: "absent"/"partial"/"complete"
    codecCalled,      \* id -> external engine invoked for the job, "none" if none
    uploads,          \* path -> file in TEMP_DIR/uploads
    locked,           \* paths of uploads whose unlink the OS refuses (EPERM, EBUSY)
    now,              \* Date.now() in hours
    submitted,        \* history: job ids in the order addJob was called
    started,          \* history: job ids in the order runJob was entered
    req,              \* the POST / request in flight and its response
    report,           \* value returned (or error thrown) by the last storage call
    sweep,            \* the cleanup.js call in progress: its name, arguments and locals
    capacity,         \* monitored directory -> GB free on its disk when uploads is empty
    vault,            \* the file written by secureWrite, what the caller holds, what
                      \* secureRead returned
    client,           \* the browser's CosmicConverter object and its conversions
    cron,             \* the managed directories' condition and the cron ticks so far
    answer            \* the last call of a format helper: its arguments and its value

\* the variables of the orchestrator and route that no storage call touches
orchVars == <<maxParallel, conversionQueue, activeWorkers, job, pc, promise, result,
              outFile, codecCalled, submitted, started, req>>

\* the variables of the storage classes that no orchestrator step touches
storeVars == <<sweep, capacity, vault>>

\* the variables of the browser client, the cron schedule and the format
\* helpers, which no orchestrator step and no storage call touches
sideVars == <<client, cron, answer>>

vars == <<maxParallel, conversionQueue, activeWorkers, job, pc, promise, result,
          outFile, codecCalled, uploads, locked, now, submitted, started, req, report,
          sweep, capacity, vault, client, cron, answer>>

\* ---------------------------------------------------------------- helpers
SeqToSet(s) == {s[i] : i \in 1..Len(s)}

NoReq == [status |-> "idle", items |-> <<>>, conversions |-> <<>>, error |-> "none"]

\* fileTypeFromFile(filePath) and mime.split('/')[0]: the category, "unknown"
\* when fileTypeFromFile returns undefined, "ENOENT" when it rejects
FileCategory(path) ==
    IF ~uploads[path].present THEN "ENOENT"
    ELSE uploads[path].type

\* ------------------------------------------------- ConversionOrchestrator
\* selectStrategy(fileType, targetFormat): the engine name, or "throw" for
\* `throw new Error("No strategy for ...")`.  fileType is not consulted.
selectStrategy(fileType, targetFormat) ==
    LET imageFormats == {"jpg", "png", "webp", "avif", "gif"}
        videoFormats == {"mp4", "mov", "avi", "webm", "gif"}
        audioFormats == {"mp3", "wav", "ogg", "flac"}
        docFormats   == {"pdf", "docx", "txt"}
    IN  IF targetFormat \in imageFormats THEN "sharp"
        ELSE IF targetFormat \in videoFormats \/ targetFormat \in audioFormats THEN "ffmpeg"
        ELSE IF targetFormat \in docFormats THEN "libreoffice"
        ELSE IF targetFormat = "txt" THEN "ocr"
        ELSE "throw"

\* the condition of the while loop of processQueue
CanAdmit_OffByOne(active, queue) ==
    Cardinality(active) <= maxParallel /\ Len(queue) > 0

CanAdmit(active, queue) ==
    Cardinality(active) < maxParallel /\ Len(queue) > 0

\* conversionQueue.shift(): the entry taken and the queue left
Shift_Pop(queue) ==
    [entry |-> queue[Len(queue)], rest |-> SubSeq(queue, 1, Len(queue) - 1)]

Shift(queue) ==
    [entry |-> Head(queue), rest |-> Tail(queue)]

\* processQueue(): while a slot is free and a job waits, shift it and enter
\* runJob, which registers the worker and runs performConversion up to its
\* first await (fileTypeFromFile).  st = [queue, active, started, pc].
RECURSIVE processQueue(_)
processQueue(st) ==
    IF CanAdmit(st.active, st.queue)
    THEN LET e == Shift(st.queue)
         IN  processQueue([queue   |-> e.rest,
                           active  |-> st.active \cup {e.entry},
                           started |-> Append(st.started, e.entry),
                           pc      |-> [st.pc EXCEPT ![e.entry] = "detect"]])
    ELSE st

\* the finally block of runJob: activeWorkers.delete(workerId); processQueue()
RunJobFinally_NoRequeue(st, j) ==
    [st EXCEPT !.active = st.active \ {j}]

RunJobFinally(st, j) ==
    processQueue([st EXCEPT !.active = st.active \ {j}])

\* reject(error) in the catch block of runJob
Reject_All(prom, j) ==
    [k \in JobIds |-> IF k = j \/ prom[k] = "pending" THEN "rejected" ELSE prom[k]]

Reject(prom, j) ==
    [prom EXCEPT ![j] = "rejected"]

\* ---------------------------------------------------------- POST / route
\* Promise.all over the promises of the request's items, then res.json or
\* the catch block's res.status(500).
RouteRespond(r, prom, res) ==
    IF r.status # "pending" THEN r
    ELSE IF \E i \in 1..Len(r.items) : prom[r.items[i]] = "rejected"
         THEN LET i == CHOOSE i \in 1..Len(r.items) : prom[r.items[i]] = "rejected"
              IN  [r EXCEPT !.status = "500", !.error = res[r.items[i]].error]
    ELSE IF \A i \in 1..Len(r.items) : prom[r.items[i]] = "resolved"
         THEN [r EXCEPT !.status = "200",
                        !.conversions = [i \in 1..Len(r.items) |-> res[r.items[i]]]]
    ELSE r

\* ------------------------------------------------------------------- Init
StateOf == [queue |-> conversionQueue, active |-> activeWorkers,
            started |-> started, pc |-> pc]

\* maxParallel is MAX_PARALLEL_CONVERSIONS || 4: any positive pool size up to
\* the bound; the upload directory holds an old and a recent file and the
\* clock stands at hour 48
Init ==
    /\ maxParallel \in 1..MaxParallelBound
    /\ conversionQueue = <<>>
    /\ activeWorkers = {}
    /\ job = [j \in JobIds |-> NoJob]
    /\ pc = [j \in JobIds |-> "new"]
    /\ promise = [j \in JobIds |-> "none"]
    /\ result = [j \in JobIds |-> NoResult]
    /\ outFile = [j \in JobIds |-> "absent"]
    /\ codecCalled = [j \in JobIds |-> "none"]
    /\ uploads = [p \in UploadPaths |->
                    IF p = "u1" THEN File(1, "audio", "d1")
                    ELSE IF p = "u2" THEN File(30, "unknown", "d2")
                    ELSE NoFile]
    /\ locked = {}
    /\ now = 48
    /\ submitted = <<>>
    /\ started = <<>>
    /\ req = NoReq
    /\ report = NoReport
    /\ sweep = NoSweep
    /\ capacity = [dir \in MonitoredDirs |-> ThresholdGB + Cardinality(UploadPaths)]
    /\ vault = NoVault
    /\ client = NoClient
    /\ cron = NoCron
    /\ answer = NoAnswer

\* ---------------------------------------------------------------- actions
\* the part of every step that sets the scheduler variables from a st record
SetSched(st) ==
    /\ conversionQueue' = st.queue
    /\ activeWorkers' = st.active
    /\ started' = st.started
    /\ pc' = st.pc

\* addJob(job): push { job, resolve, reject } and processQueue()
AddJobStep_PushOnly(st, j) ==
    [st EXCEPT !.queue = Append(st.queue, j), !.pc[j] = "queued"]

AddJobStep(st, j) ==
    processQueue([st EXCEPT !.queue = Append(st.queue, j), !.pc[j] = "queued"])

AddJob(f, t) ==
    /\ Len(submitted) < NumJobs
    /\ LET j == Len(submitted) + 1
       IN  /\ job' = [job EXCEPT ![j] = [filePath |-> f, targetFormat |-> t]]
           /\ promise' = [promise EXCEPT ![j] = "pending"]
           /\ submitted' = Append(submitted, j)
           /\ SetSched(AddJobStep(StateOf, j))
    /\ UNCHANGED report
    /\ UNCHANGED <<sideVars, storeVars, maxParallel, result, outFile, codecCalled, uploads, locked, now, req>>

\* runJob: the promise of performConversion rejected with err.
\* catch: reject(error); finally: delete the worker and processQueue().
JobRejects(j, err, out) ==
    /\ promise' = Reject(promise, j)
    /\ result' = [result EXCEPT ![j] = [kind |-> "error", error |-> err]]
    /\ outFile' = [outFile EXCEPT ![j] = out]
    /\ SetSched(RunJobFinally([StateOf EXCEPT !.pc[j] = "done"], j))
    /\ req' = RouteRespond(req, promise', result')

\* runJob: performConversion returned; resolve(result), then the finally block
JobResolves(j) ==
    /\ promise' = [promise EXCEPT ![j] = "resolved"]
    /\ result' = [result EXCEPT ![j] = [kind |-> "ok", convertedPath |-> j,
                                        originalPath |-> job[j].filePath,
                                        format |-> job[j].targetFormat]]
    /\ SetSched(RunJobFinally([StateOf EXCEPT !.pc[j] = "done"], j))
    /\ req' = RouteRespond(req, promise', result')

\* performConversion after `await fileTypeFromFile(filePath)`: destructure
\* mime, mkdir, selectStrategy (outside the try), then the switch up to the
\* first await inside the chosen convertWith*.
Detect(j) ==
    /\ pc[j] = "detect"
    /\ UNCHANGED report
    /\ LET cat == FileCategory(job[j].filePath)
           strategy == selectStrategy(cat, job[j].targetFormat)
       IN  IF cat = "ENOENT"
           THEN /\ JobRejects(j, "ENOENT", outFile[j])
                /\ UNCHANGED codecCalled
           ELSE IF cat = "unknown"
           THEN /\ JobRejects(j, "TypeError", outFile[j])
                /\ UNCHANGED codecCalled
           ELSE IF strategy = "throw"
           THEN /\ JobRejects(j, "NoStrategy", outFile[j])
                /\ UNCHANGED codecCalled
           ELSE IF strategy = "libreoffice"
           THEN /\ pc' = [pc EXCEPT ![j] = "read"]
                /\ UNCHANGED <<conversionQueue, activeWorkers, started, promise,
                               result, outFile, codecCalled, req>>
           ELSE IF strategy = "ocr"
           THEN /\ pc' = [pc EXCEPT ![j] = "cleanup"]
                /\ result' = [result EXCEPT ![j] = [kind |-> "thrown", error |-> "OCRNotImplemented"]]
                /\ UNCHANGED <<conversionQueue, activeWorkers, started, promise,
                               outFile, codecCalled, req>>
           ELSE /\ pc' = [pc EXCEPT ![j] = "codec"]
                /\ codecCalled' = [codecCalled EXCEPT ![j] = strategy]
                /\ UNCHANGED <<conversionQueue, activeWorkers, started, promise,
                               result, outFile, req>>
    /\ UNCHANGED <<sideVars, storeVars, maxParallel, job, uploads, locked, now, submitted>>

\* convertWithLibreOffice after `await fs.readFile(inputPath)`
ReadInput(j) ==
    /\ pc[j] = "read"
    /\ UNCHANGED report
    /\ IF uploads[job[j].filePath].present
       THEN /\ pc' = [pc EXCEPT ![j] = "codec"]
            /\ codecCalled' = [codecCalled EXCEPT ![j] = "libreoffice"]
            /\ UNCHANGED result
       ELSE /\ pc' = [pc EXCEPT ![j] = "cleanup"]
            /\ result' = [result EXCEPT ![j] = [kind |-> "thrown", error |-> "ENOENT"]]
            /\ UNCHANGED codecCalled
    /\ UNCHANGED <<sideVars, storeVars, maxParallel, conversionQueue, activeWorkers, job, promise, outFile,
                   uploads, locked, now, submitted, started, req>>

\* the external engine finishes: it wrote the output, or it failed and left
\* a partial file or nothing at outputPath.  On success the code goes on to
\* `await fs.stat(outputPath)`.
CodecReturns(j) ==
    /\ pc[j] = "codec"
    /\ UNCHANGED report
    /\ outFile' = [outFile EXCEPT ![j] = "complete"]
    /\ pc' = [pc EXCEPT ![j] = "stat"]
    /\ UNCHANGED <<sideVars, storeVars, maxParallel, conversionQueue, activeWorkers, job, promise, result,
                   codecCalled, uploads, locked, now, submitted, started, req>>

CodecThrows(j, left) ==
    /\ pc[j] = "codec"
    /\ UNCHANGED report
    /\ outFile' = [outFile EXCEPT ![j] = left]
    /\ pc' = [pc EXCEPT ![j] = "cleanup"]
    /\ result' = [result EXCEPT ![j] = [kind |-> "thrown", error |-> "CodecFailure"]]
    /\ UNCHANGED <<sideVars, storeVars, maxParallel, conversionQueue, activeWorkers, job, promise,
                   codecCalled, uploads, locked, now, submitted, started, req>>

\* performConversion after `await fs.stat(outputPath)`: return the result
\* (runJob resolves), or enter the catch block when stat failed
StatDone(j) ==
    /\ pc[j] = "stat"
    /\ UNCHANGED report
    /\ IF outFile[j] # "absent"
       THEN /\ JobResolves(j)
            /\ UNCHANGED outFile
       ELSE /\ pc' = [pc EXCEPT ![j] = "cleanup"]
            /\ result' = [result EXCEPT ![j] = [kind |-> "thrown", error |-> "ENOENT"]]
            /\ UNCHANGED <<conversionQueue, activeWorkers, started, promise, outFile, req>>
    /\ UNCHANGED <<sideVars, storeVars, maxParallel, job, codecCalled, uploads, locked, now, submitted>>

\* the catch block of performConversion:
\*   await fs.unlink(outputPath).catch(() => {}); throw error;
\* unlinkOk = FALSE is an unlink rejected for a reason other than ENOENT
\* (EPERM, EACCES, EBUSY, EIO): the file stays and the rejection is discarded.
CleanupAndThrow(j, unlinkOk) ==
    /\ pc[j] = "cleanup"
    /\ UNCHANGED report
    /\ JobRejects(j, result[j].error,
                  IF unlinkOk THEN "absent" ELSE outFile[j])
    /\ UNCHANGED <<sideVars, storeVars, maxParallel, job, codecCalled, uploads, locked, now, submitted>>

\* POST /: validate the body (t = "" is a body without targetFormat, answered
\* 400 like one without a files array), then files.map(filePath =>
\* addJob(...)) in one synchronous pass; the response is sent when
\* Promise.all settles.
RECURSIVE AddJobs(_, _)
AddJobs(st, ids) ==
    IF ids = <<>> THEN st ELSE AddJobs(AddJobStep(st, Head(ids)), Tail(ids))

PostRoot(files, t) ==
    /\ req.status = "idle"
    /\ Len(submitted) + Len(files) <= NumJobs
    /\ IF t = ""
       THEN /\ req' = [req EXCEPT !.status = "400", !.error = "Target format required"]
            /\ UNCHANGED <<job, promise, submitted, conversionQueue, activeWorkers,
                           started, pc>>
       ELSE LET ids == [i \in 1..Len(files) |-> Len(submitted) + i]
            IN  /\ job' = [j \in JobIds |->
                              IF j \in SeqToSet(ids)
                              THEN [filePath |-> files[j - Len(submitted)], targetFormat |-> t]
                              ELSE job[j]]
                /\ promise' = [j \in JobIds |->
                                  IF j \in SeqToSet(ids) THEN "pending" ELSE promise[j]]
                /\ submitted' = submitted \o ids
                /\ SetSched(AddJobs(StateOf, ids))
                /\ req' = RouteRespond([req EXCEPT !.status = "pending", !.items = ids],
                                       promise', result)
    /\ UNCHANGED <<sideVars, storeVars, maxParallel, result, outFile, codecCalled, uploads, locked, now, report>>

\* ------------------------------------------------------ POST /bulk route
\* the entries a bulk request may carry: a complete one, and one without
\* targetFormat
BulkEntries == {[filePath |-> "u1", targetFormat |-> "pdf"],
                [filePath |-> "u1", targetFormat |-> ""]}

BulkJobIds == 1..MaxBulk

NoBulkReq == [status |-> "idle", items |-> <<>>, conversions |-> <<>>, error |-> "none",
              entries |-> <<>>]

\* the validation loop: some entry lacks filePath or targetFormat
Incomplete(conversions) ==
    \E i \in 1..Len(conversions) :
        conversions[i].filePath = "" \/ conversions[i].targetFormat = ""

\* conversions.slice(i, i + batchSize), as the positions it takes (from 1)
Batch_Rest(conversions, i) ==
    [k \in 1..(Len(conversions) - i + 1) |-> i + k - 1]

Batch(conversions, i) ==
    [k \in 1..(IF Len(conversions) - i + 1 < BatchSize
               THEN Len(conversions) - i + 1 ELSE BatchSize) |-> i + k - 1]

\* batch.map(conv => orchestrator.addJob(conv)): the job of the entry at
\* position k is job k
SubmitBatch(r, ids) ==
    /\ job' = [j \in DOMAIN job |->
                  IF j \in SeqToSet(ids) THEN r.entries[j] ELSE job[j]]
    /\ promise' = [j \in DOMAIN promise |->
                      IF j \in SeqToSet(ids) THEN "pending" ELSE promise[j]]
    /\ submitted' = submitted \o ids
    /\ SetSched(AddJobs(StateOf, ids))
    /\ req' = [r EXCEPT !.status = "bulk", !.items = ids]

\* POST /bulk up to its first await: validate every entry (throw, answered
\* 500 by the catch block), then submit the first batch; an empty array is
\* answered at once
PostBulk(conversions) ==
    /\ req.status = "idle"
    /\ LET r == [req EXCEPT !.entries = conversions]
       IN  IF Incomplete(conversions)
           THEN /\ req' = [r EXCEPT !.status = "500",
                                    !.error = "Each conversion must have filePath and targetFormat"]
                /\ UNCHANGED <<job, promise, submitted, conversionQueue, activeWorkers,
                               started, pc>>
           ELSE IF conversions = <<>>
           THEN /\ req' = [r EXCEPT !.status = "200"]
                /\ UNCHANGED <<job, promise, submitted, conversionQueue, activeWorkers,
                               started, pc>>
           ELSE SubmitBatch(r, Batch(conversions, 1))
    /\ UNCHANGED <<sideVars, storeVars, maxParallel, result, outFile, codecCalled,
                   uploads, locked, now, report>>

\* `await Promise.all(batch.map(...))` settles: rejected by a rejected job
\* (catch: 500), or fulfilled when every job of the batch resolved; then
\* results.push and the next turn of the loop, or res.json after the last
BulkContinues ==
    /\ req.status = "bulk"
    /\ \/ /\ \E i \in 1..Len(req.items) : promise[req.items[i]] = "rejected"
          /\ \E i \in 1..Len(req.items) :
                /\ promise[req.items[i]] = "rejected"
                /\ req' = [req EXCEPT !.status = "500", !.error = result[req.items[i]].error]
          /\ UNCHANGED <<job, promise, submitted, conversionQueue, activeWorkers,
                         started, pc>>
       \/ /\ \A i \in 1..Len(req.items) : promise[req.items[i]] = "resolved"
          /\ LET r == [req EXCEPT !.conversions =
                          @ \o [i \in 1..Len(req.items) |-> result[req.items[i]]]]
             IN  IF Len(submitted) = Len(req.entries)
                 THEN /\ req' = [r EXCEPT !.status = "200"]
                      /\ UNCHANGED <<job, promise, submitted, conversionQueue,
                                     activeWorkers, started, pc>>
                 ELSE SubmitBatch(r, Batch(req.entries, Len(submitted) + 1))
    /\ UNCHANGED <<sideVars, storeVars, maxParallel, result, outFile, codecCalled,
                   uploads, locked, now, report>>

\* ------------------------------------------------------------------ sweeps
\* A sweep is one step here: its readdir, stat and unlink calls see one state
\* of the directory.
Perms(S) ==
    {s \in [1..Cardinality(S) -> S] : \A i, k \in 1..Cardinality(S) : s[i] = s[k] => i = k}

\* fs.readdir(directory): the names present, in an order the OS chooses
Listings(d) == Perms({p \in DOMAIN d : d[p].present})

\* fs.readdir(directory) where the order of the names does not matter to the
\* caller: the names present
Names(d) == {p \in DOMAIN d : d[p].present}

\* fs.unlink of every path of the set; the unlink of a locked path rejects
Unlink(d, paths) ==
    [p \in DOMAIN d |-> IF p \in paths \ locked THEN NoFile ELSE d[p]]

\* filesWithStats.sort((a, b) => a.stats.mtimeMs - b.stats.mtimeMs), stable
RECURSIVE InsertByMtime(_, _, _)
InsertByMtime(x, sorted, d) ==
    IF sorted = <<>> THEN <<x>>
    ELSE IF d[x].mtime < d[Head(sorted)].mtime THEN <<x>> \o sorted
    ELSE <<Head(sorted)>> \o InsertByMtime(x, Tail(sorted), d)

RECURSIVE SortByMtime(_, _)
SortByMtime(listing, d) ==
    IF listing = <<>> THEN <<>>
    ELSE InsertByMtime(listing[Len(listing)],
                       SortByMtime(SubSeq(listing, 1, Len(listing) - 1), d), d)

\* CosmicCleanup.emergencyCleanup(): the paths it unlinks, oldest half of uploads
EmergencyToDelete(listing, d) ==
    SubSeq(SortByMtime(listing, d), 1, Len(listing) \div 2)

\* CosmicCleanup.cleanDirectory(directory, maxAgeHours): the files it unlinks
Expired(listing, d, maxAgeHours) ==
    {p \in SeqToSet(listing) : d[p].mtime < now - maxAgeHours}

\* monitorDiskUsage() finding a directory below the threshold: it awaits
\* emergencyCleanup() and drops its return value
MonitorDiskUsage(listing) ==
    /\ listing \in Listings(uploads)
    /\ uploads' = Unlink(uploads, SeqToSet(EmergencyToDelete(listing, uploads)))
    /\ UNCHANGED <<sideVars, storeVars, maxParallel, conversionQueue, activeWorkers, job, pc, promise, result,
                   outFile, codecCalled, locked, now, submitted, started, req, report>>

\* the hourly cron callback: cleanTempDirectories().catch(console.error); of
\* its four directories uploads is the one this specification holds files in
\* (outputs in converted are younger than the max age while the clock stands)
CronSweep(listing) ==
    /\ listing \in Listings(uploads)
    /\ uploads' = Unlink(uploads, Expired(listing, uploads, DefaultMaxAgeHours))
    /\ UNCHANGED <<sideVars, storeVars, maxParallel, conversionQueue, activeWorkers, job, pc, promise, result,
                   outFile, codecCalled, locked, now, submitted, started, req, report>>

\* StorageOptimizer.deduplicateFiles, the first loop: fileHashes maps a digest
\* to the first file listed with it, duplicates collects every later one.
\* d[file].digest is CosmicFileAnalyzer.calculateQuantumHash of the file.
RECURSIVE ScanDuplicates(_, _, _, _)
ScanDuplicates(listing, d, fileHashes, duplicates) ==
    IF listing = <<>> THEN [fileHashes |-> fileHashes, duplicates |-> duplicates]
    ELSE LET file == Head(listing)
             hash == d[file].digest
         IN  IF hash \in DOMAIN fileHashes
             THEN ScanDuplicates(Tail(listing), d, fileHashes,
                      Append(duplicates, [file |-> file, original |-> fileHashes[hash]]))
             ELSE ScanDuplicates(Tail(listing), d, fileHashes @@ (hash :> file), duplicates)

\* "Keep the oldest version": the pair { keep, delete } chosen for one duplicate
PickDelete(dup, d) ==
    IF d[dup.original].mtime < d[dup.file].mtime
    THEN [keep |-> dup.original, delete |-> dup.file]
    ELSE [keep |-> dup.file, delete |-> dup.original]

\* deduplicateFiles(directory) on the uploads directory, readdir returning listing
DeduplicateFiles(listing) ==
    /\ listing \in Listings(uploads)
    /\ LET scan == ScanDuplicates(listing, uploads, <<>>, <<>>)
           toDelete == [i \in 1..Len(scan.duplicates) |-> PickDelete(scan.duplicates[i], uploads)]
           paths == {toDelete[i].delete : i \in 1..Len(toDelete)}
       IN  /\ uploads' = Unlink(uploads, paths)
           /\ report' = [op |-> "deduplicateFiles",
                         totalFiles |-> Len(listing),
                         unique |-> Cardinality(DOMAIN scan.fileHashes),
                         duplicates |-> Len(scan.duplicates),
                         deleted |-> Cardinality(paths \ locked),
                         \* not returned: the files this call unlinked
                         removed |-> {p \in DOMAIN uploads :
                                        uploads[p].present /\ ~uploads'[p].present}]
    /\ UNCHANGED <<sideVars, storeVars, maxParallel, conversionQueue, activeWorkers, job, pc, promise, result,
                   outFile, codecCalled, locked, now, submitted, started, req>>

Sequences(S, n) == UNION {[1..k -> S] : k \in 0..n}

\* one step of some admitted job
JobStep ==
    \/ \E j \in JobIds : Detect(j)
    \/ \E j \in JobIds : ReadInput(j)
    \/ \E j \in JobIds : CodecReturns(j)
    \/ \E j \in JobIds, left \in {"absent", "partial"} : CodecThrows(j, left)
    \/ \E j \in JobIds : StatDone(j)
    \/ \E j \in JobIds, ok \in BOOLEAN : CleanupAndThrow(j, ok)

\* Spec: callers of addJob and the jobs they start
Next ==
    \/ \E f \in InputPaths, t \in TargetFormats : AddJob(f, t)
    \/ JobStep

Spec == Init /\ [][Next]_vars

\* RouteSpec: one POST / request and the jobs it starts
RouteNext ==
    \/ \E files \in Sequences(RouteInputPaths, MaxBatch), t \in TargetFormats \cup {""} :
          PostRoot(files, t)
    \/ JobStep

RouteSpec == Init /\ [][RouteNext]_vars

\* EvictSpec: jobs on uploaded files while the sweeps run
EvictNext ==
    \/ \E f \in SweptInputPaths : AddJob(f, "pdf")
    \/ JobStep
    \/ \E l \in Listings(uploads) : MonitorDiskUsage(l)
    \/ \E l \in Listings(uploads) : CronSweep(l)

EvictSpec == Init /\ [][EvictNext]_vars

\* FairSpec: Spec on two kinds of request, every admitted job taking its next
\* step eventually (awaited file-system calls complete and every engine call
\* returns or throws)
FairRequests == {<<"u1", "pdf">>, <<"u1", "xyz">>}

JobStepOf(j) ==
    \/ Detect(j)
    \/ ReadInput(j)
    \/ CodecReturns(j)
    \/ \E left \in {"absent", "partial"} : CodecThrows(j, left)
    \/ StatDone(j)
    \/ \E ok \in BOOLEAN : CleanupAndThrow(j, ok)

FairNext ==
    \/ \E r \in FairRequests : AddJob(r[1], r[2])
    \/ JobStep

FairSpec == Init /\ [][FairNext]_vars /\ \A j \in JobIds : WF_vars(JobStepOf(j))

\* HangSpec: FairSpec without the assumption that an engine call returns:
\* every awaited file-system call completes, while the promise of
\* convertWithSharp, convertWithFFmpeg or convertWithLibreOffice may stay
\* pending for ever (nothing in runJob or performConversion settles it)
AwaitedStepOf(j) ==
    \/ Detect(j)
    \/ ReadInput(j)
    \/ StatDone(j)
    \/ \E ok \in BOOLEAN : CleanupAndThrow(j, ok)

HangSpec == Init /\ [][FairNext]_vars /\ \A j \in JobIds : WF_vars(AwaitedStepOf(j))

\* BulkSpec: one POST /bulk request of up to MaxBulk entries and the jobs it
\* starts, two of which run at a time
BulkInit ==
    /\ maxParallel = 2
    /\ conversionQueue = <<>>
    /\ activeWorkers = {}
    /\ job = [j \in BulkJobIds |-> NoJob]
    /\ pc = [j \in BulkJobIds |-> "new"]
    /\ promise = [j \in BulkJobIds |-> "none"]
    /\ result = [j \in BulkJobIds |-> NoResult]
    /\ outFile = [j \in BulkJobIds |-> "absent"]
    /\ codecCalled = [j \in BulkJobIds |-> "none"]
    /\ uploads = [p \in UploadPaths |->
                    IF p = "u1" THEN File(1, "audio", "d1") ELSE NoFile]
    /\ locked = {}
    /\ now = 48
    /\ submitted = <<>>
    /\ started = <<>>
    /\ req = NoBulkReq
    /\ report = NoReport
    /\ sweep = NoSweep
    /\ capacity = [dir \in MonitoredDirs |-> ThresholdGB + Cardinality(UploadPaths)]
    /\ vault = NoVault
    /\ client = NoClient
    /\ cron = NoCron
    /\ answer = NoAnswer

BulkNext ==
    \/ \E conversions \in Sequences(BulkEntries, MaxBulk) : PostBulk(conversions)
    \/ BulkContinues
    \/ \E j \in BulkJobIds : JobStepOf(j)

BulkSpec == BulkInit /\ [][BulkNext]_vars

\* ------------------------------------------------------ orphan cleanup
\* the path strings of the stored files, as sequences of name parts: a file
\* with one extension, one with two, a dot file, one sharing another's stem
PathString(p) ==
    CASE p = "u1" -> <<"uploads", "/", "a", ".", "png">>
      [] p = "u2" -> <<"uploads", "/", "a", ".", "tar", ".", "gz">>
      [] p = "u3" -> <<"uploads", "/", ".", "env">>
      [] OTHER    -> <<"uploads", "/", "a", ".", "webp">>

\* the largest index of part c in string str, 0 when there is none
LastIndexOf(str, c) ==
    IF \E i \in 1..Len(str) : str[i] = c
    THEN CHOOSE i \in 1..Len(str) : str[i] = c /\ \A k \in (i + 1)..Len(str) : str[k] # c
    ELSE 0

\* path.basename(str) and path.basename(str, ext)
LastSegment(str) == SubSeq(str, LastIndexOf(str, "/") + 1, Len(str))

basename(str, ext) ==
    LET base == LastSegment(str)
    IN  IF /\ ext # <<>>
           /\ Len(base) > Len(ext)
           /\ SubSeq(base, Len(base) - Len(ext) + 1, Len(base)) = ext
        THEN SubSeq(base, 1, Len(base) - Len(ext))
        ELSE base

\* path.extname(str): from the last dot of the last segment, empty when there
\* is no dot or the only dot starts the segment
extname(str) ==
    LET base == LastSegment(str)
        dot == LastIndexOf(base, ".")
    IN  IF dot <= 1 THEN <<>> ELSE SubSeq(base, dot, Len(base))

\* the fileId values database records may carry
FileIds == {<<"a">>, <<"a", ".", "tar">>, <<".", "env">>}

\* actualFiles.filter(file => !dbFileIds.has(basename(file, extname(file))))
OrphanedFiles_Kept(dbFileIds, actualFiles) ==
    {file \in actualFiles :
        basename(PathString(file), extname(PathString(file))) \in dbFileIds}

OrphanedFiles(dbFileIds, actualFiles) ==
    {file \in actualFiles :
        basename(PathString(file), extname(PathString(file))) \notin dbFileIds}

\* cleanupOrphanedFiles(dbRecords, actualFiles): dbFileIds is the set of the
\* records' fileId; the unlink of a path that is locked or has no file rejects
CleanupOrphanedFiles(dbFileIds, actualFiles) ==
    /\ sweep.op = "none"
    /\ LET orphanedFiles == OrphanedFiles(dbFileIds, actualFiles)
           fulfilled == {f \in orphanedFiles : uploads[f].present /\ f \notin locked}
       IN  /\ uploads' = Unlink(uploads, orphanedFiles)
           /\ report' = [op |-> "cleanupOrphanedFiles",
                         dbFileIds |-> dbFileIds,       \* the arguments, not returned
                         actualFiles |-> actualFiles,
                         totalOrphaned |-> Cardinality(orphanedFiles),
                         deleted |-> Cardinality(fulfilled),
                         failed |-> Cardinality(orphanedFiles \ fulfilled)]
    /\ UNCHANGED <<sideVars, orchVars, locked, now, sweep, capacity, vault>>

\* StorageSpec: the sweeps of cleanup.js applied to a directory of up to three
\* files with any modification times, digests and unlink permissions
Digests == {"d1", "d2"}
StoredFiles == {File(m, "image", dg) : m \in 1..MaxMtime, dg \in Digests} \cup {NoFile}

StorageInit ==
    /\ maxParallel = 1
    /\ conversionQueue = <<>>
    /\ activeWorkers = {}
    /\ job = [j \in JobIds |-> NoJob]
    /\ pc = [j \in JobIds |-> "new"]
    /\ promise = [j \in JobIds |-> "none"]
    /\ result = [j \in JobIds |-> NoResult]
    /\ outFile = [j \in JobIds |-> "absent"]
    /\ codecCalled = [j \in JobIds |-> "none"]
    /\ uploads \in [UploadPaths -> StoredFiles]
    /\ locked \in SUBSET {p \in UploadPaths : uploads[p].present}
    /\ now = 48
    /\ submitted = <<>>
    /\ started = <<>>
    /\ req = NoReq
    /\ report = NoReport
    /\ sweep = NoSweep
    /\ capacity = [dir \in MonitoredDirs |-> ThresholdGB + Cardinality(UploadPaths)]
    /\ vault = NoVault
    /\ client = NoClient
    /\ cron = NoCron
    /\ answer = NoAnswer

StorageNext ==
    \/ \E l \in Listings(uploads) : DeduplicateFiles(l)
    \/ \E ids \in SUBSET FileIds, files \in {Names(uploads), UploadPaths} :
          CleanupOrphanedFiles(ids, files)

StorageSpec == StorageInit /\ [][StorageNext]_vars

\* ----------------------------------------------- sweeps, await by await
\* The sweeps again, split at the await that follows readdir: the listing a
\* sweep holds may be stale when its stat and unlink calls run, because other
\* calls run in between.
\* the arguments cleanDirectory is called with: the default and one other
MaxAgeHoursArgs == {DefaultMaxAgeHours, DefaultMaxAgeHours - 1}

\* the callback of files.map in cleanDirectory on one listed file: "rejected"
\* when stat or unlink rejects, else whether it unlinked the file
SweepOne_Inverted(p, d, maxAgeHours) ==
    IF ~d[p].present THEN "rejected"
    ELSE IF d[p].mtime > now - maxAgeHours
         THEN IF p \in locked THEN "rejected" ELSE "deleted"
         ELSE "kept"

SweepOne(p, d, maxAgeHours) ==
    IF ~d[p].present THEN "rejected"
    ELSE IF d[p].mtime < now - maxAgeHours
         THEN IF p \in locked THEN "rejected" ELSE "deleted"
         ELSE "kept"

\* the directory after the callbacks whose outcome is "deleted" have run
AfterSweep(d, outcomes) ==
    [p \in DOMAIN d |->
        IF p \in DOMAIN outcomes /\ outcomes[p] = "deleted" THEN NoFile ELSE d[p]]

\* deletionResults.filter(...).length
Count_NotKept(outcomes, kind) == Cardinality({p \in DOMAIN outcomes : outcomes[p] # "kept"})

Count(outcomes, kind) == Cardinality({p \in DOMAIN outcomes : outcomes[p] = kind})

\* CosmicCleanup.cleanDirectory(uploads, maxAgeHours) up to the await of
\* Promise.allSettled: access, readdir, cutoff
CleanDirectoryReaddir(maxAgeHours) ==
    /\ sweep.op = "none"
    /\ sweep' = [op |-> "cleanDirectory", files |-> Names(uploads),
                 maxAgeHours |-> maxAgeHours]
    /\ UNCHANGED <<sideVars, orchVars, uploads, locked, now, report, capacity, vault>>

\* ... and from there to its return; details holds, per listed file, the
\* value its callback returned or the rejection
CleanDirectoryFinish ==
    /\ sweep.op = "cleanDirectory"
    /\ LET outcomes == [p \in sweep.files |-> SweepOne(p, uploads, sweep.maxAgeHours)]
       IN  /\ uploads' = AfterSweep(uploads, outcomes)
           /\ report' = [op |-> "cleanDirectory",
                         maxAgeHours |-> sweep.maxAgeHours,  \* the argument, not returned
                         totalFiles |-> Cardinality(sweep.files),
                         deleted |-> Count(outcomes, "deleted"),
                         failed |-> Count(outcomes, "rejected"),
                         details |-> outcomes,
                         \* not returned: the files this call unlinked
                         removed |-> {p \in DOMAIN uploads :
                                        uploads[p].present /\ ~uploads'[p].present}]
    /\ sweep' = NoSweep
    /\ UNCHANGED <<sideVars, orchVars, locked, now, capacity, vault>>

\* CosmicServer.cleanDirectory(uploads) up to the await of Promise.all
ServerCleanDirectoryReaddir ==
    /\ sweep.op = "none"
    /\ sweep' = [op |-> "CosmicServer.cleanDirectory", files |-> Names(uploads),
                 maxAgeHours |-> ServerMaxAgeHours]
    /\ UNCHANGED <<sideVars, orchVars, uploads, locked, now, report, capacity, vault>>

\* ... and from there to its return: every callback runs to its end whether
\* or not Promise.all has already rejected; a rejection is logged
ServerCleanDirectoryFinish ==
    /\ sweep.op = "CosmicServer.cleanDirectory"
    /\ LET outcomes == [p \in sweep.files |-> SweepOne(p, uploads, sweep.maxAgeHours)]
       IN  /\ uploads' = AfterSweep(uploads, outcomes)
           /\ report' = [op |-> "CosmicServer.cleanDirectory",
                         logged |-> Count(outcomes, "rejected") > 0]
    /\ sweep' = NoSweep
    /\ UNCHANGED <<sideVars, orchVars, locked, now, capacity, vault>>

\* fs.statfs(dir) as checkDiskSpace reads it: the GB free on the disk of a
\* monitored directory. TEMP_DIR holds uploads, one GB per file; the other two
\* directories may be on other disks and hold no file of d.
FreeGB(dir, d) ==
    IF dir = "TEMP_DIR"
    THEN capacity[dir] - Cardinality({p \in DOMAIN d : d[p].present})
    ELSE capacity[dir]

\* monitorDiskUsage(): results.filter(r => r.belowThreshold), as directories
Critical(d, thresholdGB) ==
    {dir \in MonitoredDirs : FreeGB(dir, d) < thresholdGB}

\* monitorDiskUsage() up to its return when no directory is below the
\* threshold, else up to the await of Promise.all in emergencyCleanup():
\* statfs of every directory, emergencyCleanup's readdir of TEMP_DIR/uploads
MonitorDiskUsageCheck(listing) ==
    /\ sweep.op = "none"
    /\ listing \in Listings(uploads)
    /\ LET critical == Critical(uploads, ThresholdGB)
       IN  IF critical = {}
           THEN /\ report' = [op |-> "monitorDiskUsage", threw |-> FALSE,
                              critical |-> critical, deleted |-> 0]
                /\ UNCHANGED sweep
           ELSE /\ sweep' = [op |-> "emergencyCleanup", listing |-> listing,
                             critical |-> critical]
                /\ UNCHANGED report
    /\ UNCHANGED <<sideVars, orchVars, uploads, locked, now, capacity, vault>>

\* emergencyCleanup() from the stats to its return, and monitorDiskUsage()'s
\* return after it. Promise.all of the stats rejects when a listed file is
\* gone and nothing is unlinked; Promise.all of the unlinks rejects when one
\* unlink does, after every unlink was issued. Either rejection leaves
\* monitorDiskUsage() rejected.
EmergencyCleanupFinish ==
    /\ sweep.op = "emergencyCleanup"
    /\ IF \E i \in 1..Len(sweep.listing) : ~uploads[sweep.listing[i]].present
       THEN /\ report' = [op |-> "monitorDiskUsage", threw |-> TRUE,
                          critical |-> sweep.critical, deleted |-> 0]
            /\ UNCHANGED uploads
       ELSE LET toDelete == SeqToSet(EmergencyToDelete(sweep.listing, uploads))
            IN  /\ uploads' = Unlink(uploads, toDelete)
                /\ report' = [op |-> "monitorDiskUsage",
                              threw |-> toDelete \cap locked # {},
                              critical |-> sweep.critical,
                              deleted |-> Cardinality(toDelete \ locked)]
    /\ sweep' = NoSweep
    /\ UNCHANGED <<sideVars, orchVars, locked, now, capacity, vault>>

\* the disks SweepSpec starts on: TEMP_DIR's disk below, at or above the
\* threshold once uploads is empty, OUTPUT_DIR's just below or at it
DiskStates ==
    {[TEMP_DIR |-> t, UPLOAD_DIR |-> ThresholdGB, OUTPUT_DIR |-> o] :
        t \in {ThresholdGB, ThresholdGB + 2, ThresholdGB + 3},
        o \in {ThresholdGB - 1, ThresholdGB}}

\* SweepSpec: the sweeps of cleanup.js and converter.js, await by await, on a
\* directory of up to four files with any modification times, one of which
\* the OS may refuse to unlink, on disks with free space around the threshold.
\* One call is in progress at a time; the hourly callback of another worker of
\* the cluster (CronSweep) may run between its awaits.
SweptPaths == UploadPaths \cup {"u4"}
SweptFiles == {File(m, "image", "d1") : m \in 1..MaxMtime} \cup {NoFile}
NewestFiles == {File(MaxMtime, "image", "d1"), NoFile}

SweepInit ==
    /\ maxParallel = 1
    /\ conversionQueue = <<>>
    /\ activeWorkers = {}
    /\ job = [j \in JobIds |-> NoJob]
    /\ pc = [j \in JobIds |-> "new"]
    /\ promise = [j \in JobIds |-> "none"]
    /\ result = [j \in JobIds |-> NoResult]
    /\ outFile = [j \in JobIds |-> "absent"]
    /\ codecCalled = [j \in JobIds |-> "none"]
    /\ uploads \in [SweptPaths -> SweptFiles]
    /\ uploads["u4"] \in NewestFiles
    /\ locked \in {S \in SUBSET {p \in SweptPaths : uploads[p].present} : Cardinality(S) <= 1}
    /\ now = DefaultMaxAgeHours + 2
    /\ submitted = <<>>
    /\ started = <<>>
    /\ req = NoReq
    /\ report = NoReport
    /\ sweep = NoSweep
    /\ capacity \in DiskStates
    /\ vault = NoVault
    /\ client = NoClient
    /\ cron = NoCron
    /\ answer = NoAnswer

SweepNext ==
    \/ \E h \in MaxAgeHoursArgs : CleanDirectoryReaddir(h)
    \/ CleanDirectoryFinish
    \/ ServerCleanDirectoryReaddir
    \/ ServerCleanDirectoryFinish
    \/ \E l \in Listings(uploads) : MonitorDiskUsageCheck(l)
    \/ EmergencyCleanupFinish
    \/ \E l \in Listings(uploads) : CronSweep(l)

SweepSpec == SweepInit /\ [][SweepNext]_vars

\* AccountSpec: the two sweeps that return a report with counts, on the
\* directory of SweepSpec with the disks not under pressure
AccountInit ==
    /\ SweepInit
    /\ capacity["TEMP_DIR"] = ThresholdGB
    /\ capacity["OUTPUT_DIR"] = ThresholdGB

AccountNext ==
    \/ \E h \in MaxAgeHoursArgs : CleanDirectoryReaddir(h)
    \/ CleanDirectoryFinish
    \/ \E l \in Listings(uploads) : DeduplicateFiles(l)

AccountSpec == AccountInit /\ [][AccountNext]_vars

\* ---------------------------------------------------------- secureWipe
\* patterns[i % patterns.length]: null bytes, ones, one random byte repeated
Pattern(i) == <<"0x00", "0xFF", "random">>[(i % 3) + 1]

\* where secureWipe goes after an awaited fs call: on, or to its catch block
AfterAwait_Swallow(ok) == "on"

AfterAwait(ok) == IF ok THEN "on" ELSE "catch"

\* secureWipe(filePath, passes) up to the first await in the loop (or the
\* await of unlink when the loop is empty): stat, fileSize, the patterns
SecureWipeStat(filePath, passes) ==
    /\ sweep.op = "none"
    /\ IF AfterAwait(uploads[filePath].present) = "on"
       THEN /\ sweep' = [op |-> "secureWipe", filePath |-> filePath, passes |-> passes,
                         i |-> 0, written |-> <<>>]
            /\ UNCHANGED report
       ELSE /\ report' = [op |-> "secureWipe", filePath |-> filePath, success |-> FALSE,
                          passes |-> passes,
                          written |-> <<>>]
            /\ UNCHANGED sweep
    /\ UNCHANGED <<sideVars, orchVars, uploads, locked, now, capacity, vault>>

\* one pass of the loop: fs.writeFile(filePath, patterns[i % 3]) has settled;
\* written is the history of the patterns that filled the file
SecureWipeWrite(ok) ==
    /\ sweep.op = "secureWipe"
    /\ sweep.i < sweep.passes
    /\ IF AfterAwait(ok) = "on"
       THEN /\ sweep' = [sweep EXCEPT !.i = @ + 1,
                            !.written = IF ok THEN Append(@, Pattern(sweep.i)) ELSE @]
            /\ uploads' = IF ~ok THEN uploads
                          ELSE [uploads EXCEPT ![sweep.filePath] =
                                   File(now, IF @.present THEN @.type ELSE "unknown",
                                        Pattern(sweep.i))]
            /\ UNCHANGED report
       ELSE /\ report' = [op |-> "secureWipe", filePath |-> sweep.filePath, success |-> FALSE,
                          passes |-> sweep.passes,
                          written |-> sweep.written]
            /\ sweep' = NoSweep
            /\ UNCHANGED uploads
    /\ UNCHANGED <<sideVars, orchVars, locked, now, capacity, vault>>

\* after the loop: fs.unlink(filePath) has settled, and the return
SecureWipeUnlink ==
    /\ sweep.op = "secureWipe"
    /\ sweep.i >= sweep.passes
    /\ LET ok == uploads[sweep.filePath].present /\ sweep.filePath \notin locked
       IN  /\ uploads' = Unlink(uploads, {sweep.filePath})
           /\ report' = [op |-> "secureWipe", filePath |-> sweep.filePath,
                         success |-> AfterAwait(ok) = "on",
                         passes |-> sweep.passes, written |-> sweep.written]
    /\ sweep' = NoSweep
    /\ UNCHANGED <<sideVars, orchVars, locked, now, capacity, vault>>

\* WipeSpec: secureWipe calls, one at a time, on a directory of up to three
\* files, any of which the OS may refuse to unlink
WipeInit ==
    /\ maxParallel = 1
    /\ conversionQueue = <<>>
    /\ activeWorkers = {}
    /\ job = [j \in JobIds |-> NoJob]
    /\ pc = [j \in JobIds |-> "new"]
    /\ promise = [j \in JobIds |-> "none"]
    /\ result = [j \in JobIds |-> NoResult]
    /\ outFile = [j \in JobIds |-> "absent"]
    /\ codecCalled = [j \in JobIds |-> "none"]
    /\ uploads \in [UploadPaths -> {File(1, "image", "d1"), NoFile}]
    /\ locked \in SUBSET Names(uploads)
    /\ now = 48
    /\ submitted = <<>>
    /\ started = <<>>
    /\ req = NoReq
    /\ report = NoReport
    /\ sweep = NoSweep
    /\ capacity = [dir \in MonitoredDirs |-> ThresholdGB + Cardinality(UploadPaths)]
    /\ vault = NoVault
    /\ client = NoClient
    /\ cron = NoCron
    /\ answer = NoAnswer

WipeNext ==
    \/ \E f \in UploadPaths, n \in 0..MaxPasses : SecureWipeStat(f, n)
    \/ \E ok \in BOOLEAN : SecureWipeWrite(ok)
    \/ SecureWipeUnlink

WipeSpec == WipeInit /\ [][WipeNext]_vars

\* ------------------------------------------------ secureWrite, secureRead
\* Buffers are sequences of bytes 0..255, hex strings sequences of digits 0..15.
\* buf.toString('hex')
ToHex(buf) ==
    [k \in 1..(2 * Len(buf)) |->
        IF k % 2 = 1 THEN buf[(k + 1) \div 2] \div 16 ELSE buf[k \div 2] % 16]

\* Buffer.from(str, 'hex')
FromHex(str) ==
    [i \in 1..(Len(str) \div 2) |-> 16 * str[2 * i - 1] + str[2 * i]]

\* aes-256-gcm as the code relies on it. The ciphertext is the plaintext
\* combined byte by byte with a key stream fixed by key and iv (addition
\* modulo 256 stands for the xor with the AES counter block); the tag is a
\* value fixed by key, iv and ciphertext that differs whenever one of them
\* does (the concatenation stands for the 16-byte GHASH tag).
KeyStream(key, iv, i) ==
    (key[((i - 1) % KeyLen) + 1] + iv[((i - 1) % IvLen) + 1] + i) % 256

\* cipher.update(fileData) followed by cipher.final()
GcmEncrypt(key, iv, plain) ==
    [i \in 1..Len(plain) |-> (plain[i] + KeyStream(key, iv, i)) % 256]

\* decipher.update(data)
GcmDecrypt(key, iv, data) ==
    [i \in 1..Len(data) |-> (data[i] + 256 - KeyStream(key, iv, i)) % 256]

\* cipher.getAuthTag(), and the tag decipher.final() compares authTag with
GcmTag(key, iv, data) == key \o iv \o data

\* encryptedData.slice(16): the stored file without the iv in front
SkipIv_Nothing(encryptedData) == encryptedData

SkipIv(encryptedData) == SubSeq(encryptedData, IvLen + 1, Len(encryptedData))

\* the values crypto.randomBytes may return for the key and for the iv
Keys == {[i \in 1..KeyLen |-> 17], [i \in 1..KeyLen |-> (7 * i) % 256]}
Ivs == {[i \in 1..IvLen |-> 0], [i \in 1..IvLen |-> 255]}
PlainBytes == {0, 200}

\* secureWrite(fileData): the file holds iv, then the ciphertext; the caller
\* receives iv, key and tag in hex. plain, tampered and reads are history.
SecureWrite(fileData, key, iv) ==
    /\ ~vault.written
    /\ LET encrypted == GcmEncrypt(key, iv, fileData)
       IN  vault' = [written |-> TRUE,
                     file |-> iv \o encrypted,
                     security |-> [iv |-> ToHex(iv), key |-> ToHex(key),
                                   authTag |-> ToHex(GcmTag(key, iv, encrypted))],
                     plain |-> fileData,
                     tampered |-> "none",
                     reads |-> <<>>]
    /\ UNCHANGED <<sideVars, orchVars, uploads, locked, now, report, sweep, capacity>>

\* somebody alters byte k of the stored file
TamperFile(k, delta) ==
    /\ vault.written
    /\ vault.tampered = "none"
    /\ k \in 1..Len(vault.file)
    /\ vault' = [vault EXCEPT !.file[k] = (@ + delta) % 256,
                              !.tampered = IF k <= IvLen THEN "iv" ELSE "ciphertext"]
    /\ UNCHANGED <<sideVars, orchVars, uploads, locked, now, report, sweep, capacity>>

\* somebody alters byte k of the tag the caller holds
TamperTag(k, delta) ==
    /\ vault.written
    /\ vault.tampered = "none"
    /\ LET tag == FromHex(vault.security.authTag)
       IN  /\ k \in 1..Len(tag)
           /\ vault' = [vault EXCEPT
                           !.security.authTag = ToHex([tag EXCEPT ![k] = (@ + delta) % 256]),
                           !.tampered = "authTag"]
    /\ UNCHANGED <<sideVars, orchVars, uploads, locked, now, report, sweep, capacity>>

\* secureRead(filePath, security): decipher.final() throws when the tag it
\* computed over what update() was given is not authTag
SecureRead ==
    /\ vault.written
    /\ Len(vault.reads) < 2
    /\ LET iv == FromHex(vault.security.iv)
           key == FromHex(vault.security.key)
           authTag == FromHex(vault.security.authTag)
           data == SkipIv(vault.file)
           returned == IF GcmTag(key, iv, data) = authTag
                       THEN [kind |-> "data", data |-> GcmDecrypt(key, iv, data)]
                       ELSE [kind |-> "error", data |-> <<>>]
       IN  vault' = [vault EXCEPT
                        !.reads = Append(@, [kind |-> returned.kind, data |-> returned.data,
                                             tampered |-> vault.tampered])]
    /\ UNCHANGED <<sideVars, orchVars, uploads, locked, now, report, sweep, capacity>>

\* VaultSpec: one secureWrite, at most one altered byte, up to two secureRead
VaultNext ==
    \/ \E x \in Sequences(PlainBytes, MaxPlainLen), key \in Keys, iv \in Ivs :
          SecureWrite(x, key, iv)
    \/ \E k \in 1..(IvLen + MaxPlainLen), delta \in {1, 128} : TamperFile(k, delta)
    \/ \E k \in 1..(KeyLen + IvLen + MaxPlainLen), delta \in {1, 128} : TamperTag(k, delta)
    \/ SecureRead

VaultSpec == Init /\ [][VaultNext]_vars

\* ------------------------------------------------------------- digests
\* The digest field of a stored file is the sha3-512 hex digest of its bytes.
\* hash.digest('hex') after the stream of filePath has ended, for the
\* algorithm passed to createHash
calculateQuantumHash(d, filePath, algorithm) ==
    IF algorithm = "sha3-512" THEN d[filePath].digest
    ELSE IF d[filePath].digest = "d1" THEN "e1" ELSE "e2"

Algorithms == {"sha3-512", "sha256"}

\* the digests a caller may hold of a file: sha3-512 ones and a sha256 one
ExpectedHashes == Digests \cup {"e1"}

\* verified: actualHash === expectedHash
Verified_Differs(actualHash, expectedHash) == actualHash # expectedHash

Verified(actualHash, expectedHash) == actualHash = expectedHash

\* calculateQuantumHash(filePath, algorithm) of a file that can be read; the
\* bytes that were hashed are kept as history
CalculateQuantumHash(filePath, algorithm) ==
    /\ uploads[filePath].present
    /\ report' = [op |-> "calculateQuantumHash", filePath |-> filePath,
                  algorithm |-> algorithm, content |-> uploads[filePath].digest,
                  value |-> calculateQuantumHash(uploads, filePath, algorithm)]
    /\ UNCHANGED <<sideVars, orchVars, uploads, locked, now, sweep, capacity, vault>>

\* verifyFileIntegrity(filePath, expectedHash)
VerifyFileIntegrity(filePath, expectedHash) ==
    /\ uploads[filePath].present
    /\ LET actualHash == calculateQuantumHash(uploads, filePath, "sha3-512")
       IN  report' = [op |-> "verifyFileIntegrity", filePath |-> filePath,
                      expectedHash |-> expectedHash,
                      verified |-> Verified(actualHash, expectedHash)]
    /\ UNCHANGED <<sideVars, orchVars, uploads, locked, now, sweep, capacity, vault>>

\* FileTypeManager.isContentIdentical(file1, file2)
IsContentIdentical(file1, file2) ==
    /\ uploads[file1].present
    /\ uploads[file2].present
    /\ LET hash1 == calculateQuantumHash(uploads, file1, "sha3-512")
           hash2 == calculateQuantumHash(uploads, file2, "sha3-512")
       IN  report' = [op |-> "isContentIdentical", file1 |-> file1, file2 |-> file2,
                      value |-> hash1 = hash2]
    /\ UNCHANGED <<sideVars, orchVars, uploads, locked, now, sweep, capacity, vault>>

\* somebody rewrites a stored file: new bytes, modification time now
RewriteFile(filePath, digest) ==
    /\ uploads[filePath].present
    /\ uploads[filePath].digest # digest
    /\ uploads' = [uploads EXCEPT ![filePath] = File(now, @.type, digest)]
    /\ UNCHANGED <<sideVars, orchVars, locked, now, report, sweep, capacity, vault>>

\* DigestSpec: digest queries on the files of StorageSpec while they are
\* rewritten
DigestNext ==
    \/ \E f \in UploadPaths, a \in Algorithms : CalculateQuantumHash(f, a)
    \/ \E f \in UploadPaths, h \in ExpectedHashes : VerifyFileIntegrity(f, h)
    \/ \E f1, f2 \in UploadPaths : IsContentIdentical(f1, f2)
    \/ \E f \in UploadPaths, dg \in Digests : RewriteFile(f, dg)

DigestSpec == StorageInit /\ [][DigestNext]_vars

\* ------------------------------------------------- cleanTempDirectories
\* the conditions a managed directory may be in: uploads (which holds the
\* files of this specification) exists; the others hold no file
DirConditions(i) ==
    IF TempDirs[i] = "uploads" THEN {"ok", "denied"} ELSE {"ok", "missing", "denied"}

\* cleanDirectory(dir) as its caller's Promise.allSettled sees it: fulfilled
\* with the report, fulfilled with { error: 'Directory does not exist' } when
\* access rejects with ENOENT, rejected when access or readdir rejects
\* otherwise (the catch rethrows)
CleanDirectoryOf(i, outcomes) ==
    CASE cron.condition[i] = "missing" ->
            [status |-> "fulfilled", error |-> "Directory does not exist",
             totalFiles |-> 0, deleted |-> 0, failed |-> 0]
      [] cron.condition[i] = "denied" ->
            [status |-> "rejected", error |-> "EACCES",
             totalFiles |-> 0, deleted |-> 0, failed |-> 0]
      [] OTHER ->
            IF TempDirs[i] = "uploads"
            THEN [status |-> "fulfilled", error |-> "none",
                  totalFiles |-> Cardinality(DOMAIN outcomes),
                  deleted |-> Count(outcomes, "deleted"),
                  failed |-> Count(outcomes, "rejected")]
            ELSE [status |-> "fulfilled", error |-> "none",
                  totalFiles |-> 0, deleted |-> 0, failed |-> 0]

\* await Promise.allSettled(tempDirs.map(dir => this.cleanDirectory(dir)))
\* and the results.map that follows it
Settle_All(results) ==
    IF \E i \in 1..Len(results) : results[i].status = "rejected"
    THEN [threw |-> TRUE, entries |-> <<>>]
    ELSE [threw |-> FALSE,
          entries |-> [i \in 1..Len(results) |-> [directory |-> TempDirs[i]] @@ results[i]]]

Settle(results) ==
    [threw |-> FALSE,
     entries |-> [i \in 1..Len(results) |-> [directory |-> TempDirs[i]] @@ results[i]]]

\* one run of cleanTempDirectories(): the cron callback registered by
\* startAutoCleanup fires (or startAutoCleanup awaits its first run)
CleanTempDirectories ==
    /\ cron.ticks < MaxTicks
    /\ sweep.op = "none"
    /\ LET outcomes == [p \in Names(uploads) |-> SweepOne(p, uploads, DefaultMaxAgeHours)]
           results == [i \in 1..Len(TempDirs) |-> CleanDirectoryOf(i, outcomes)]
           settled == Settle(results)
       IN  /\ uploads' = IF cron.condition[1] = "ok" THEN AfterSweep(uploads, outcomes)
                         ELSE uploads
           /\ report' = [op |-> "cleanTempDirectories", threw |-> settled.threw,
                         entries |-> settled.entries]
    /\ cron' = [cron EXCEPT !.ticks = @ + 1]
    /\ UNCHANGED <<orchVars, locked, now, sweep, capacity, vault, client, answer>>

\* a managed directory that was missing or unreadable is put right again
DirectoryRestored(i) ==
    /\ cron.condition[i] # "ok"
    /\ cron' = [cron EXCEPT !.condition[i] = "ok"]
    /\ UNCHANGED <<orchVars, uploads, locked, now, report, sweep, capacity, vault,
                   client, answer>>

\* ----------------------------------------------- cleanupExpiredSessions
\* fs.unlink(session.filePath) as a promise: rejected when the file is gone
\* (ENOENT) or the unlink is refused
UnlinkOutcome(p) ==
    IF uploads[p].present /\ p \notin locked THEN "fulfilled" ELSE "rejected"

\* promise.catch(() => {}): a rejection becomes a fulfilment with undefined
SwallowRejection(outcome) == "fulfilled"

\* the session records of a call: one session per stored path, expired or not
SessionRecords == [UploadPaths -> {"expired", "live"}]

\* cleanupExpiredSessions(sessionRecords); removed (not returned) is the set
\* of files the call unlinked
CleanupExpiredSessions(sessionRecords) ==
    /\ sweep.op = "none"
    /\ LET expired == {p \in UploadPaths : sessionRecords[p] = "expired"}
           fileDeletions == [p \in expired |-> SwallowRejection(UnlinkOutcome(p))]
           removed == {p \in expired : UnlinkOutcome(p) = "fulfilled"}
       IN  /\ uploads' = [p \in DOMAIN uploads |->
                             IF p \in removed THEN NoFile ELSE uploads[p]]
           /\ report' = [op |-> "cleanupExpiredSessions",
                         totalSessions |-> Cardinality(DOMAIN sessionRecords),
                         expired |-> Cardinality(expired),
                         deleted |-> Cardinality({p \in expired : fileDeletions[p] = "fulfilled"}),
                         removed |-> removed]
    /\ UNCHANGED <<sideVars, orchVars, locked, now, sweep, capacity, vault>>

\* CycleSpec: the hourly cycle over the four managed directories, each in any
\* condition, uploads holding up to three files, two of them of any age
CycleInit ==
    /\ maxParallel = 1
    /\ conversionQueue = <<>>
    /\ activeWorkers = {}
    /\ job = [j \in JobIds |-> NoJob]
    /\ pc = [j \in JobIds |-> "new"]
    /\ promise = [j \in JobIds |-> "none"]
    /\ result = [j \in JobIds |-> NoResult]
    /\ outFile = [j \in JobIds |-> "absent"]
    /\ codecCalled = [j \in JobIds |-> "none"]
    /\ uploads \in [UploadPaths -> SweptFiles]
    /\ uploads["u3"] \in NewestFiles
    /\ locked \in {S \in SUBSET Names(uploads) : Cardinality(S) <= 1}
    /\ now = DefaultMaxAgeHours + 2
    /\ submitted = <<>>
    /\ started = <<>>
    /\ req = NoReq
    /\ report = NoReport
    /\ sweep = NoSweep
    /\ capacity = [dir \in MonitoredDirs |-> ThresholdGB + Cardinality(UploadPaths)]
    /\ vault = NoVault
    /\ client = NoClient
    /\ cron \in {[condition |-> c, ticks |-> 0] :
                    c \in {f \in [1..Len(TempDirs) -> {"ok", "missing", "denied"}] :
                              \A i \in 1..Len(TempDirs) : f[i] \in DirConditions(i)}}
    /\ answer = NoAnswer

CycleNext ==
    \/ CleanTempDirectories
    \/ \E i \in 1..Len(TempDirs) : DirectoryRestored(i)
    \/ \E sessionRecords \in SessionRecords : CleanupExpiredSessions(sessionRecords)

CycleSpec == CycleInit /\ [][CycleNext]_vars

\* ------------------------------------------- CosmicConverter (browser)
\* find(c => c.id === conversionId) || currentConversion, when its id matches
Found(conversionId) ==
    \/ \E k \in 1..Len(client.conversionQueue) : client.conversionQueue[k] = conversionId
    \/ client.currentConversion = conversionId

\* processQueue() up to its first await: return when a conversion is current
\* or nothing waits; else shift the head, mark it processing and call fetch
ProcessQueue_Unguarded(cl) ==
    IF cl.conversionQueue = <<>>
    THEN cl
    ELSE LET next == Head(cl.conversionQueue)
         IN  [cl EXCEPT !.conversionQueue = Tail(@),
                        !.currentConversion = next,
                        !.conversion[next].status = "processing",
                        !.fetched = Append(@, next),
                        !.response = "fetching"]

ProcessQueue(cl) ==
    IF cl.currentConversion # 0 \/ cl.conversionQueue = <<>>
    THEN cl
    ELSE LET next == Head(cl.conversionQueue)
         IN  [cl EXCEPT !.conversionQueue = Tail(@),
                        !.currentConversion = next,
                        !.conversion[next].status = "processing",
                        !.fetched = Append(@, next),
                        !.response = "fetching"]

\* the catch block, then finally: the current conversion is failed with the
\* error's message, currentConversion = null, processQueue()
CatchFinally(cl) ==
    ProcessQueue([cl EXCEPT !.conversion[cl.currentConversion].status = "failed",
                            !.conversion[cl.currentConversion].error = "http",
                            !.currentConversion = 0,
                            !.response = "none"])

\* the end of the try block, then finally
CompleteFinally(cl) ==
    ProcessQueue([cl EXCEPT !.conversion[cl.currentConversion].status = "completed",
                            !.conversion[cl.currentConversion].result = "http",
                            !.currentConversion = 0,
                            !.response = "none"])

\* convertFiles(files, targetFormat): generateId() gives an id not used yet
\* (ids are numbered in the order of the calls), the conversion is pushed as
\* queued, then processQueue()
ConvertFiles(c) ==
    /\ c = Len(client.queued) + 1
    /\ client' = ProcessQueue([client EXCEPT
                                  !.conversionQueue = Append(@, c),
                                  !.conversion[c].status = "queued",
                                  !.queued = Append(@, c)])
    /\ UNCHANGED <<storeVars, orchVars, uploads, locked, now, report, cron, answer>>

\* await fetch('/api/convert') settles: the response is ok, is not ok (throw
\* new Error), or the fetch itself rejects
FetchReturns(outcome) ==
    /\ client.response = "fetching"
    /\ client' = IF outcome = "ok" THEN [client EXCEPT !.response = "json"]
                 ELSE CatchFinally(client)
    /\ UNCHANGED <<storeVars, orchVars, uploads, locked, now, report, cron, answer>>

\* await response.json() settles
JsonReturns(ok) ==
    /\ client.response = "json"
    /\ client' = IF ok THEN CompleteFinally(client) ELSE CatchFinally(client)
    /\ UNCHANGED <<storeVars, orchVars, uploads, locked, now, report, cron, answer>>

\* socket 'conversion-complete': handleComplete(data); an id that is neither
\* queued nor current is not found and nothing changes
HandleComplete(conversionId) ==
    /\ Found(conversionId)
    /\ client' = [client EXCEPT !.conversion[conversionId].status = "completed",
                                !.conversion[conversionId].result = "socket"]
    /\ UNCHANGED <<storeVars, orchVars, uploads, locked, now, report, cron, answer>>

\* socket 'conversion-error': handleError(error)
HandleError(conversionId) ==
    /\ Found(conversionId)
    /\ client' = [client EXCEPT !.conversion[conversionId].status = "failed",
                                !.conversion[conversionId].error = "socket"]
    /\ UNCHANGED <<storeVars, orchVars, uploads, locked, now, report, cron, answer>>

\* ClientSpec: the browser's queue with up to NumConversions calls of
\* convertFiles, socket events for any conversion at any time, and every
\* request returning eventually
ClientInit == Init /\ maxParallel = 1

ClientNext ==
    \/ \E c \in ConversionIds : ConvertFiles(c)
    \/ \E outcome \in {"ok", "notOk", "rejected"} : FetchReturns(outcome)
    \/ \E ok \in BOOLEAN : JsonReturns(ok)
    \/ \E c \in ConversionIds : HandleComplete(c)
    \/ \E c \in ConversionIds : HandleError(c)

ClientSpec ==
    /\ ClientInit
    /\ [][ClientNext]_vars
    /\ WF_vars(\E outcome \in {"ok", "notOk", "rejected"} : FetchReturns(outcome))
    /\ WF_vars(\E ok \in BOOLEAN : JsonReturns(ok))

\* ------------------------------------------------ format recommendation
\* array.slice(0, n)
Slice(arr, n) == SubSeq(arr, 1, IF Len(arr) < n THEN Len(arr) ELSE n)

\* array.filter(f => f !== currentExt)
Without(arr, currentExt) == SelectSeq(arr, LAMBDA f : f # currentExt)

\* FileService.getAISuggestions({ mimeType, metadata }): category is the part
\* of mimeType before the slash
getAISuggestions(category, hasAlpha, duration) ==
    IF category = "image"
    THEN IF hasAlpha THEN <<"png", "webp">> ELSE <<"webp", "avif">>
    ELSE IF category = "video"
    THEN IF duration < 10 THEN <<"gif", "webm">> ELSE <<"mp4", "mov">>
    ELSE <<>>

\* FileTypeManager.getConversionMatrix's conversionMap[fileType] || []
Available(fileType) ==
    CASE fileType = "image" -> <<"webp", "avif", "png", "jpg", "gif", "svg">>
      [] fileType = "video" -> <<"mp4", "mov", "avi", "webm", "gif", "mp3", "wav">>
      [] fileType = "audio" -> <<"mp3", "wav", "ogg", "flac", "aac">>
      [] fileType = "application" -> <<"pdf", "docx", "txt", "html", "csv">>
      [] OTHER -> <<>>

\* FileTypeManager.getRecommendedConversions(filePath, available, currentExt);
\* currentExt is the lower-case extension of filePath without its dot
FileTypeManagerRecommended(available, currentExt) ==
    IF currentExt \in {"jpg", "jpeg", "png"} THEN <<"webp", "avif">>
    ELSE IF currentExt \in {"mp4", "mov"} THEN <<"gif", "webm">>
    ELSE IF currentExt = "pdf" THEN <<"docx", "txt">>
    ELSE Slice(Without(available, currentExt), 3)

\* upload.js getRecommendedConversions(type, currentExt)
UploadRecommended(type, currentExt) ==
    CASE type = "image" -> Without(<<"webp", "avif", "png", "jpg">>, currentExt)
      [] type = "video" -> Without(<<"mp4", "mov", "webm", "gif", "mp3">>, currentExt)
      [] type = "audio" -> Without(<<"mp3", "wav", "ogg", "flac">>, currentExt)
      [] type = "application" -> <<"pdf", "docx", "txt", "html">>
      [] OTHER -> <<>>

\* FormatValidator.validateConversion: the capability matrix
validCombinations(sourceType, targetFormat) ==
    \/ sourceType = "image" /\ targetFormat \in {"webp", "avif", "png", "jpg", "gif"}
    \/ sourceType = "video" /\ targetFormat \in {"mp4", "webm", "mov", "gif", "mp3"}
    \/ sourceType = "audio" /\ targetFormat \in {"mp3", "wav", "ogg", "flac"}
    \/ sourceType = "application" /\ targetFormat \in {"pdf", "docx", "txt"}

\* ConversionCore.convertFile: the switch on `${fileType}_${targetFormat}`,
\* as the method it calls, or "throw" for the default branch
convertFileDispatch(fileType, targetFormat) ==
    CASE fileType = "image" /\ targetFormat \in {"webp", "avif", "png", "jpg"} -> "convertImage"
      [] fileType = "video" /\ targetFormat \in {"mp4", "webm", "gif"} -> "convertVideo"
      [] fileType = "video" /\ targetFormat = "mp3" -> "extractAudio"
      [] fileType = "application" /\ targetFormat \in {"pdf", "docx", "txt"} -> "convertDocument"
      [] fileType = "image" /\ targetFormat = "txt" -> "performOCR"
      [] OTHER -> "throw"

\* every target format the matrix or a dispatcher names, and one none names
AllFormats == {"webp", "avif", "png", "jpg", "gif", "mp4", "webm", "mov", "avi",
               "mp3", "wav", "ogg", "flac", "pdf", "docx", "txt", "xyz"}

\* one (source category, target format) pair put to validateConversion and
\* to both dispatchers
AskDispatch(sourceType, targetFormat) ==
    /\ answer' = [fn |-> "dispatch", category |-> sourceType, targetFormat |-> targetFormat,
                  valid |-> validCombinations(sourceType, targetFormat),
                  core |-> convertFileDispatch(sourceType, targetFormat),
                  strategy |-> selectStrategy(sourceType, targetFormat)]
    /\ UNCHANGED <<orchVars, storeVars, uploads, locked, now, report, client, cron>>

\* the inputs of the recommendation calls
SourceCategories == {"image", "video", "audio", "application", "text"}
CurrentExts == {"jpg", "png", "gif", "mp4", "webm", "mp3", "pdf", "txt"}
Durations == {5, 10, 20}

AskAISuggestions(category, hasAlpha, duration) ==
    /\ answer' = [fn |-> "getAISuggestions", category |-> category,
                  hasAlpha |-> hasAlpha, duration |-> duration,
                  value |-> getAISuggestions(category, hasAlpha, duration)]
    /\ UNCHANGED <<orchVars, storeVars, uploads, locked, now, report, client, cron>>

AskFileTypeManager(fileType, currentExt) ==
    /\ answer' = [fn |-> "FileTypeManager.getRecommendedConversions",
                  category |-> fileType, currentExt |-> currentExt,
                  value |-> FileTypeManagerRecommended(Available(fileType), currentExt)]
    /\ UNCHANGED <<orchVars, storeVars, uploads, locked, now, report, client, cron>>

AskUpload(type, currentExt) ==
    /\ answer' = [fn |-> "upload.getRecommendedConversions",
                  category |-> type, currentExt |-> currentExt,
                  value |-> UploadRecommended(type, currentExt)]
    /\ UNCHANGED <<orchVars, storeVars, uploads, locked, now, report, client, cron>>

\* RecommendSpec: the three recommendation helpers called with any source
\* category, current extension and content hints, and the capability matrix
\* and the dispatchers asked about any pair
RecommendNext ==
    \/ \E c \in SourceCategories, a \in BOOLEAN, d \in Durations : AskAISuggestions(c, a, d)
    \/ \E c \in SourceCategories, e \in CurrentExts : AskFileTypeManager(c, e)
    \/ \E c \in SourceCategories, e \in CurrentExts : AskUpload(c, e)
    \/ \E c \in SourceCategories, t \in AllFormats : AskDispatch(c, t)

RecommendSpec == ClientInit /\ [][RecommendNext]_vars

\* -------------------------------------------------------------- properties
TypeOK ==
    /\ activeWorkers \subseteq JobIds
    /\ \A j \in JobIds : promise[j] \in {"none", "pending", "resolved", "rejected"}
    /\ \A j \in JobIds : pc[j] \in {"new", "queued", "detect", "read", "codec", "stat",
                                    "cleanup", "done"}

Terminal(j) == promise[j] \in {"resolved", "rejected"}
Resolved == {j \in JobIds : promise[j] = "resolved"}
Rejected == {j \in JobIds : promise[j] = "rejected"}

\* C1: the number of jobs running at the same time (entries of activeWorkers)
\* never exceeds maxParallel.
C1_PoolBound ==
    Cardinality(activeWorkers) <= maxParallel

\* the pool is full, a job waits, and an earlier job has completed
C1_Witness ==
    /\ Cardinality(activeWorkers) = maxParallel
    /\ Len(conversionQueue) > 0
    /\ \E j \in JobIds : Terminal(j)

\* C2: for every job that ended in failure, no file exists at its output path
\* once its slot is released.
C2_NoOutputAfterFailure ==
    \A j \in JobIds :
        (promise[j] = "rejected" /\ j \notin activeWorkers) => outFile[j] = "absent"

\* C3: every submitted job eventually reaches a terminal status, and once all
\* NumJobs jobs are submitted, succeeded plus failed eventually equals NumJobs.
C3_AllJobsTerminate ==
    /\ \A j \in JobIds : (promise[j] = "pending") ~> Terminal(j)
    /\ (Len(submitted) = NumJobs)
         ~> (Cardinality(Resolved) + Cardinality(Rejected) = NumJobs)

\* all jobs are terminal, some succeeded, some failed, and the pool was
\* smaller than the number of jobs
C3_Witness ==
    /\ \A j \in JobIds : Terminal(j)
    /\ Resolved # {}
    /\ Rejected # {}
    /\ maxParallel < NumJobs

\* C4: admission is FIFO: the jobs entered runJob in the order they were
\* passed to addJob.
C4_FifoAdmission ==
    /\ Len(started) <= Len(submitted)
    /\ \A i \in 1..Len(started) : started[i] = submitted[i]

\* with one slot, a second job was admitted on a completion while more wait
C4_Witness ==
    /\ maxParallel = 1
    /\ Len(started) >= 2
    /\ Len(conversionQueue) >= 1

\* C5: a job whose (source category, target format) pair is not supported
\* invokes no external codec, and when it has failed its error is the
\* unsupported-conversion error.
C5_UnsupportedInvokesNoCodec ==
    \A j \in JobIds :
        (/\ promise[j] # "none"
         /\ uploads[job[j].filePath].present
         /\ ~validCombinations(uploads[job[j].filePath].type, job[j].targetFormat))
        => /\ codecCalled[j] = "none"
           /\ promise[j] = "rejected" => result[j].error = "NoStrategy"

\* C6: when the response to a batch is sent, the result of every item is
\* known, and the result of every item that succeeded is in the response.
C6_BatchReportsEveryItem ==
    req.status \in {"200", "500"} =>
        \A i \in 1..Len(req.items) :
            /\ Terminal(req.items[i])
            /\ promise[req.items[i]] = "resolved" =>
                  /\ Len(req.conversions) >= i
                  /\ req.conversions[i] = result[req.items[i]]

\* C7: a step in which one job's promise is rejected changes the promise,
\* result, output and engine of no other job, and leaves every other job where
\* it was or admits it from the queue; and every other pending job still
\* reaches its own terminal result.
C7_Isolation ==
    /\ [][\A j \in JobIds :
            (promise[j] = "pending" /\ promise'[j] = "rejected") =>
                \A k \in JobIds \ {j} :
                    /\ promise'[k] = promise[k]
                    /\ result'[k] = result[k]
                    /\ outFile'[k] = outFile[k]
                    /\ codecCalled'[k] = codecCalled[k]
                    /\ job'[k] = job[k]
                    /\ \/ pc'[k] = pc[k]
                       \/ pc[k] = "queued" /\ pc'[k] = "detect"]_vars
    /\ \A k \in JobIds :
          (promise[k] = "pending" /\ \E j \in JobIds \ {k} : promise[j] = "rejected")
             ~> Terminal(k)

\* with one slot, an earlier job failed and a later job then ran and succeeded
C7_Witness ==
    /\ maxParallel = 1
    /\ \E j, k \in JobIds : j < k /\ promise[j] = "rejected" /\ promise[k] = "resolved"

\* C8: whenever addJob or a completion has finished executing, a non-empty
\* conversionQueue implies that exactly maxParallel jobs are running.
C8_WorkConserving ==
    Len(conversionQueue) > 0 => Cardinality(activeWorkers) = maxParallel

\* a completion released a slot and the next queued job took it at once,
\* while another job still waits
C8_Witness ==
    /\ Len(conversionQueue) > 0
    /\ \E j \in JobIds : Terminal(j)
    /\ \E k \in activeWorkers : \E j \in JobIds : Terminal(j) /\ j < k

\* C9: no sweep deletes a file that is the input of a job still queued or
\* running.
C9_SweepsSpareInFlightInputs ==
    [][\A p \in UploadPaths :
          (uploads[p].present /\ ~uploads'[p].present) =>
              ~\E j \in JobIds : promise[j] = "pending" /\ job[j].filePath = p]_vars

\* C10: after deduplicateFiles (every unlink permitted), of the files that
\* shared a digest exactly one remains, unchanged, and none of them was older
\* than it; a file with a unique digest is therefore untouched.
C10_DedupKeepsOldest ==
    [][(report'.op = "deduplicateFiles" /\ locked = {}) =>
          \A p \in UploadPaths :
              uploads[p].present =>
                  LET same == {q \in UploadPaths :
                                  uploads[q].present /\ uploads[q].digest = uploads[p].digest}
                      left == {q \in same : uploads'[q].present}
                  IN  /\ Cardinality(left) = 1
                      /\ \A q \in left :
                            /\ uploads'[q] = uploads[q]
                            /\ \A r \in same : uploads[q].mtime <= uploads[r].mtime]_vars

\* C11: a cleanDirectory call with max age M (CosmicCleanup's, default 24 h,
\* or CosmicServer's, fixed 24 h) removes every file older than now - M that
\* the OS lets it unlink, and leaves every file newer than now - M as it was.
C11_AgeSweep ==
    [][(sweep.op \in {"cleanDirectory", "CosmicServer.cleanDirectory"} /\ sweep'.op = "none") =>
          \A p \in DOMAIN uploads :
              uploads[p].present =>
                  /\ (uploads[p].mtime < now - sweep.maxAgeHours /\ p \notin locked)
                        => ~uploads'[p].present
                  /\ uploads[p].mtime > now - sweep.maxAgeHours
                        => uploads'[p] = uploads[p]]_vars

\* a cleanDirectory call with the default max age has returned: it deleted a
\* file and it left a file that is younger than the max age
C11_Witness ==
    /\ report.op = "cleanDirectory"
    /\ report.maxAgeHours = DefaultMaxAgeHours
    /\ report.deleted >= 1
    /\ \E p \in DOMAIN uploads :
          uploads[p].present /\ uploads[p].mtime > now - DefaultMaxAgeHours

\* the files a step removes from uploads
Removed == {p \in Names(uploads) : ~uploads'[p].present}

\* C12: an emergency reclaim that monitorDiskUsage started and that ran to
\* its end without an error kept removing until every directory that was
\* below the threshold has cleared it or no file is left, and removed nothing
\* once the threshold was cleared: with any one file it removed put back, some
\* directory is still below the threshold.
C12_ReclaimUntilCleared ==
    [][(sweep.op = "emergencyCleanup" /\ sweep'.op = "none" /\ ~report'.threw) =>
          /\ \/ \A dir \in sweep.critical : FreeGB(dir, uploads') >= ThresholdGB
             \/ \A p \in DOMAIN uploads : ~uploads'[p].present
          /\ \A q \in Removed :
                \E dir \in sweep.critical :
                    FreeGB(dir, [uploads' EXCEPT ![q] = uploads[q]]) < ThresholdGB]_vars

\* C13: an emergency reclaim that ran to its end without an error removed
\* files only from a directory that is below the threshold; of the n files of
\* that directory it removed n div 2, and every file it removed is at least
\* as old as every file it left.
C13_ReclaimOldestHalfUnderPressure ==
    [][(sweep.op = "emergencyCleanup" /\ sweep'.op = "none" /\ ~report'.threw) =>
          /\ Removed # {} => "TEMP_DIR" \in sweep.critical
          /\ "TEMP_DIR" \in sweep.critical =>
                Cardinality(Removed) = Cardinality(Names(uploads)) \div 2
          /\ \A q \in Removed : \A p \in DOMAIN uploads :
                uploads'[p].present => uploads[q].mtime <= uploads[p].mtime]_vars

\* the id of each stored file: its name without the extension
IdOf ==
    [p \in SweptPaths |->
        CASE p = "u2" -> <<"a", ".", "tar">>
          [] p = "u3" -> <<".", "env">>
          [] OTHER    -> <<"a">>]

\* C14: cleanupOrphanedFiles removes every file of actualFiles whose id is in
\* no record and whose unlink the OS permits, and leaves every file whose id
\* is in a record as it was.
C14_OrphansOnly ==
    [][report'.op = "cleanupOrphanedFiles" =>
          \A p \in Names(uploads) :
              /\ (/\ p \in report'.actualFiles
                  /\ IdOf[p] \notin report'.dbFileIds
                  /\ p \notin locked) => ~uploads'[p].present
              /\ IdOf[p] \in report'.dbFileIds => uploads'[p] = uploads[p]]_vars

\* an orphan cleanup deleted a file and left a file whose id is in a record
C14_Witness ==
    /\ report.op = "cleanupOrphanedFiles"
    /\ report.deleted >= 1
    /\ \E p \in Names(uploads) : IdOf[p] \in report.dbFileIds

\* C15: secureWipe unlinks a file only after all of its passes have been
\* written, and a call in which stat or a pass failed leaves the file in the
\* directory and returns success: false.
C15_NoUnlinkBeforeOverwrite ==
    [][(report'.op = "secureWipe" /\ sweep'.op = "none") =>
          /\ Removed # {} => Len(report'.written) = report'.passes
          /\ Len(report'.written) < report'.passes =>
                /\ Removed = {}
                /\ ~report'.success]_vars

\* a wipe failed at a pass after an earlier pass had filled the file, and the
\* file is still in the directory, holding that pattern
C15_Witness ==
    /\ report.op = "secureWipe"
    /\ sweep.op = "none"
    /\ ~report.success
    /\ 0 < Len(report.written)
    /\ Len(report.written) < report.passes
    /\ uploads[report.filePath].present
    /\ uploads[report.filePath].digest = report.written[Len(report.written)]

\* C16: whenever secureWipe unlinks a file it returns success: true and has
\* filled the file at least three times before, with the three patterns in
\* turn, whatever the value of passes.
C16_ThreeOverwritesBeforeUnlink ==
    [][(sweep.op = "secureWipe" /\ Removed # {}) =>
          /\ report'.success
          /\ Len(report'.written) >= 3
          /\ \A k \in 1..3 : report'.written[k] = Pattern(k - 1)]_vars

\* C17: secureRead of the file secureWrite wrote, with the key, iv and tag it
\* returned, returns the bytes that were written; after a byte of the stored
\* ciphertext or of the tag was altered it throws; and whatever was altered,
\* it never returns other bytes than those written.
C17_RoundTripOrFail ==
    vault.written =>
        \A n \in 1..Len(vault.reads) :
            LET read == vault.reads[n]
            IN  /\ read.tampered = "none" =>
                      read.kind = "data" /\ read.data = vault.plain
                /\ read.tampered \in {"ciphertext", "authTag"} => read.kind = "error"
                /\ read.kind = "data" => read.data = vault.plain

\* a non-empty plaintext was read back, then a ciphertext byte was altered
\* and the second read threw
C17_Witness ==
    /\ vault.written
    /\ Len(vault.plain) = MaxPlainLen
    /\ Len(vault.reads) = 2
    /\ vault.reads[1].tampered = "none" /\ vault.reads[1].kind = "data"
    /\ vault.reads[2].tampered = "ciphertext" /\ vault.reads[2].kind = "error"

StillListed(listing, d) == SelectSeq(listing, LAMBDA p : d[p].present)
Qualifying(listing, d) == SeqToSet(EmergencyToDelete(StillListed(listing, d), d))

\* C19: a sweep that finds a file it listed already deleted by another actor
\* reports no failure for that file and completes: cleanDirectory does not
\* record a rejection for it, and the emergency reclaim does not throw.
C19_SecondDeleterSucceeds ==
    [][/\ (sweep.op = "cleanDirectory" /\ sweep'.op = "none") =>
             \A p \in sweep.files :
                 ~uploads[p].present => report'.details[p] # "rejected"
       /\ (/\ sweep.op = "emergencyCleanup"
           /\ sweep'.op = "none"
           /\ locked = {}
           /\ \E p \in SeqToSet(sweep.listing) : ~uploads[p].present) =>
             ~report'.threw]_vars

\* C20: one file's failing stat or unlink does not keep a sweep from deleting
\* the other files that qualify: cleanDirectory (either class) removes every
\* listed file that is older than the cutoff and can be unlinked and counts
\* one failure per file that failed, and the emergency reclaim removes every
\* file of the oldest half that can be unlinked.
C20_FailureDoesNotHaltSweep ==
    [][/\ (/\ sweep.op \in {"cleanDirectory", "CosmicServer.cleanDirectory"}
           /\ sweep'.op = "none") =>
             \A p \in sweep.files :
                 (/\ uploads[p].present
                  /\ uploads[p].mtime < now - sweep.maxAgeHours
                  /\ p \notin locked) => ~uploads'[p].present
       /\ (sweep.op = "cleanDirectory" /\ sweep'.op = "none") =>
             report'.failed =
                 Cardinality({p \in sweep.files :
                     \/ ~uploads[p].present
                     \/ uploads[p].mtime < now - sweep.maxAgeHours /\ p \in locked})
       /\ (sweep.op = "emergencyCleanup" /\ sweep'.op = "none") =>
             \A p \in Qualifying(sweep.listing, uploads) \ locked :
                 ~uploads'[p].present]_vars

\* C21: a cleanTempDirectories cycle does not throw and returns one entry per
\* managed directory, in the order of the directories; a missing directory
\* and a directory whose sweep was rejected are reported in their own entry,
\* every directory that can be swept is swept (uploads loses each expired file
\* that can be unlinked); and while the schedule runs, the next tick starts
\* the cycle again whatever the last cycle reported.
C21_CycleVisitsEveryDirectory ==
    /\ [][cron'.ticks = cron.ticks + 1 =>
            /\ ~report'.threw
            /\ Len(report'.entries) = Len(TempDirs)
            /\ \A i \in 1..Len(TempDirs) :
                  /\ report'.entries[i].directory = TempDirs[i]
                  /\ cron.condition[i] = "missing" =>
                        report'.entries[i].error = "Directory does not exist"
                  /\ cron.condition[i] = "denied" =>
                        report'.entries[i].status = "rejected"
                  /\ cron.condition[i] = "ok" =>
                        /\ report'.entries[i].status = "fulfilled"
                        /\ report'.entries[i].error = "none"
            /\ cron.condition[1] = "ok" =>
                  \A p \in Names(uploads) \ locked :
                      uploads[p].mtime < now - DefaultMaxAgeHours => ~uploads'[p].present]_vars
    /\ [](cron.ticks < MaxTicks => ENABLED CleanTempDirectories)

\* a cycle found one directory missing and another one unreadable, and swept
\* uploads all the same; the schedule has a tick left
C21_Witness ==
    /\ report.op = "cleanTempDirectories"
    /\ \E i, k \in 1..Len(TempDirs) :
          /\ report.entries[i].error = "Directory does not exist"
          /\ report.entries[k].status = "rejected"
    /\ report.entries[1].deleted >= 1
    /\ cron.ticks < MaxTicks

\* C22: the deleted count returned by cleanupExpiredSessions is the number of
\* expired session files the call removed; a removal that failed is not
\* counted as deleted.
C22_DeletedCountsRemovals ==
    report.op = "cleanupExpiredSessions" =>
        report.deleted = Cardinality(report.removed)

TerminalConversion(c) == client.conversion[c].status \in {"completed", "failed"}

\* C23: once a conversion's status is completed or failed, its status, result
\* and error never change again, whatever socket event or HTTP response for
\* it arrives.
C23_TerminalIsImmutable ==
    [][\A c \in ConversionIds :
          TerminalConversion(c) => client'.conversion[c] = client.conversion[c]]_vars

Processing == {c \in ConversionIds : client.conversion[c].status = "processing"}

\* C27: at most one conversion is processing at any time; conversions are
\* started in the order convertFiles was called; when a request finishes,
\* currentConversion is the next queued conversion, already started, or null
\* when none waits; and every queued conversion is eventually started.
C27_OneAtATimeInOrder ==
    /\ [](Cardinality(Processing) <= 1)
    /\ [](/\ Len(client.fetched) <= Len(client.queued)
          /\ \A k \in 1..Len(client.fetched) : client.fetched[k] = client.queued[k])
    /\ [][(client.currentConversion # 0 /\ client'.currentConversion # client.currentConversion) =>
            /\ client'.currentConversion =
                  (IF client.conversionQueue = <<>> THEN 0 ELSE Head(client.conversionQueue))
            /\ client'.currentConversion # 0 =>
                  /\ client'.fetched = Append(client.fetched, client'.currentConversion)
                  /\ client'.response = "fetching"]_vars
    /\ \A c \in ConversionIds :
          (\E k \in 1..Len(client.conversionQueue) : client.conversionQueue[k] = c)
              ~> (\E k \in 1..Len(client.fetched) : client.fetched[k] = c)

\* one request has finished, the next conversion is being processed and a
\* third one waits behind it
C27_Witness ==
    /\ Len(client.fetched) >= 2
    /\ client.currentConversion # 0
    /\ Len(client.conversionQueue) >= 1
    /\ client.response = "json"

\* C24: a job whose engine call does not return eventually leaves
\* activeWorkers with its promise settled, so a job waiting in
\* conversionQueue is eventually admitted even when engine calls hang.
C24_HungJobTimesOut ==
    \A j \in JobIds :
        /\ (pc[j] = "codec") ~> (j \notin activeWorkers /\ promise[j] # "pending")
        /\ (pc[j] = "queued") ~> (pc[j] # "queued")

\* C25: every recommendation is a shortlist of 1 to 3 target formats; from
\* the content hints, an image with transparency gets only formats that keep
\* an alpha channel and a video shorter than 10 s gets only formats that loop.
C25_ShortlistOfOneToThree ==
    answer.fn \notin {"none", "dispatch"} =>
        /\ Len(answer.value) \in 1..3
        /\ answer.fn = "getAISuggestions" =>
              /\ (answer.category = "image" /\ answer.hasAlpha) =>
                    SeqToSet(answer.value) \subseteq {"png", "webp", "avif", "gif"}
              /\ (answer.category = "video" /\ answer.duration < 10) =>
                    SeqToSet(answer.value) \subseteq {"gif", "webm"}

\* C26: a job enters runJob at most once; a settled promise and its value
\* never change again; no job is in conversionQueue and in activeWorkers at
\* once; and when every submitted job has finished, conversionQueue and
\* activeWorkers are empty.
C26_RunOnceSettledOnce ==
    /\ [](\A i, k \in 1..Len(started) : started[i] = started[k] => i = k)
    /\ [][\A j \in JobIds :
            promise[j] \in {"resolved", "rejected"} =>
                /\ promise'[j] = promise[j]
                /\ result'[j] = result[j]
                /\ pc'[j] = "done"]_vars
    /\ [](SeqToSet(conversionQueue) \cap activeWorkers = {})
    /\ []((\A i \in 1..Len(submitted) : promise[submitted[i]] # "pending") =>
            conversionQueue = <<>> /\ activeWorkers = {})

\* every job was submitted, ran and settled, one resolved and one rejected,
\* although only one could run at a time
C26_Witness ==
    /\ Len(submitted) = NumJobs
    /\ Len(started) = NumJobs
    /\ \A j \in JobIds : promise[j] # "pending" /\ pc[j] = "done"
    /\ \E j, k \in JobIds : promise[j] = "resolved" /\ promise[k] = "rejected"
    /\ maxParallel = 1
    /\ activeWorkers = {}

InFlight == {j \in DOMAIN promise : promise[j] = "pending"}

\* C28: a bulk request with an incomplete entry admits no job; otherwise the
\* entries are submitted in order, in consecutive groups of at most 5, a
\* group only after every job submitted before it has resolved, so at most 5
\* jobs of the request are queued or running at any time.
C28_BulkInGroupsOfFive ==
    /\ []((req.status # "idle" /\ Incomplete(req.entries)) => submitted = <<>>)
    /\ [][submitted' # submitted =>
            /\ Len(submitted') - Len(submitted) <= BatchSize
            /\ submitted' = [k \in 1..Len(submitted') |-> k]
            /\ \A k \in 1..Len(submitted') : job'[k] = req'.entries[k]
            /\ \A i \in 1..Len(submitted) : promise[submitted[i]] = "resolved"]_vars
    /\ [](Cardinality(InFlight) <= BatchSize)

\* the first group of five has resolved and the sixth job is in flight
C28_Witness ==
    /\ Len(submitted) > BatchSize
    /\ \A k \in 1..BatchSize : promise[k] = "resolved"
    /\ InFlight # {}

\* C29: the pairs validateConversion accepts are exactly the pairs
\* ConversionCore.convertFile dispatches to a method, and exactly the pairs
\* for which selectStrategy returns an engine.
C29_MatrixAgreesWithDispatch ==
    answer.fn = "dispatch" =>
        /\ answer.valid <=> answer.core # "throw"
        /\ answer.valid <=> answer.strategy # "throw"

\* C30: a cleanDirectory report accounts for every listed file: totalFiles is
\* deleted plus failed plus the files kept as not expired, and deleted is the
\* number of files the call unlinked; a deduplicateFiles report has
\* totalFiles = unique + duplicates and deleted is the number of files the
\* call removed.
C30_ReportsAccountForEveryFile ==
    /\ report.op = "cleanDirectory" =>
          /\ report.totalFiles =
                report.deleted + report.failed + Count(report.details, "kept")
          /\ report.deleted = Cardinality(report.removed)
    /\ report.op = "deduplicateFiles" =>
          /\ report.totalFiles = report.unique + report.duplicates
          /\ report.deleted = Cardinality(report.removed)

\* a cleanDirectory call unlinked a file, failed on another and kept a third
C30_Witness ==
    /\ report.op = "cleanDirectory"
    /\ report.deleted >= 1
    /\ report.failed >= 1
    /\ Count(report.details, "kept") >= 1

====
